---- MODULE Spec2Model ----
(***************************************************************************)
(* FriendAI backend: the Express handlers of backend/server.js over the    *)
(* dual-mode StorageAdapter of backend/storage.js.                         *)
(*                                                                         *)
(* Time is counted in UTC calendar days (the handlers compare the          *)
(* YYYY-MM-DD part of ISO timestamps only).  An in-memory identifier       *)
(* mem_<type>_<n> is the pair (collection, n); a Map iterates in insertion *)
(* order, which is ascending n because counters only grow.  The created_at *)
(* and updated_at stamps of tasks, goals and habits are written and never  *)
(* read back except as the sort key of a list: created_at grows with the   *)
(* identifier, so a list sorted on it is a list sorted on the identifier,  *)
(* and the stamps themselves are not part of the state.                    *)
(*                                                                         *)
(* Request bodies carry values of the types of the schemas of              *)
(* backend/models.js: a transcription is text (a sequence of lower-case    *)
(* words), the completed flag of a task is a JSON boolean.  Mood scores    *)
(* are counted in tenths, so that 7.5 is 75; null is 0.                    *)
(***************************************************************************)
EXTENDS Integers, Sequences, FiniteSets, TLC

VARIABLES
    connState,         \* connectDB: "connecting", "connected" or "failed"
    isMongoConnected,  \* StorageAdapter.isMongoConnected
    stores,            \* [mem |-> inMemory maps, db |-> MongoDB collections]
    now,               \* the wall clock, in UTC days
    res,               \* the response of the request handled last
    routed,            \* the backends that storage operations have been routed to
    pending            \* an analyze request in flight with the upstream's answer to it

vars == <<connState, isMongoConnected, stores, now, res, routed, pending>>

-----------------------------------------------------------------------------
(* Bounds of the model *)

MaxDay == 3       \* the clock stops at this day
MaxHabits == 2    \* habits created per run
MaxTasks == 1     \* tasks created per run
MaxJournal == 2   \* journal entries created per run
MaxRecords == 3   \* records created per run where several collections are filled
MaxWords == 5     \* keywords of either list in a transcription
MaxAccounts == 2  \* users registered per run
MaxStreakEntries == 3  \* journal entries created per run of the streak model
MaxGateRecords == 1  \* records created per run behind the middleware
MaxBodyRecords == 2  \* records created per run of the request-body model
MaxUpcoming == 3  \* tasks created per run of the upcoming-tasks model
MaxInFlight == 2  \* requests between two awaits at one time

\* the users holding a verified token; req.user.id is the identifier in the token
Users == {"u1", "u2"}

-----------------------------------------------------------------------------
(* Generic helpers *)

Range(s) == {s[i] : i \in 1..Len(s)}

Max2(a, b) == IF a >= b THEN a ELSE b
Min2(a, b) == IF a <= b THEN a ELSE b

\* Object.assign(target, updates) / { ...a, ...b }
Assign(target, updates) ==
    [f \in (DOMAIN target) \cup (DOMAIN updates) |->
        IF f \in DOMAIN updates THEN updates[f] ELSE target[f]]

Has(obj, f) == f \in DOMAIN obj

RECURSIVE SelectSeqIds(_, _)
\* the keys of a Map in iteration order: ascending counter value
SelectSeqIds(ids, acc) ==
    IF ids = {} THEN acc
    ELSE LET m == CHOOSE x \in ids : \A y \in ids : x <= y
         IN SelectSeqIds(ids \ {m}, Append(acc, m))

MapKeys(coll) == SelectSeqIds(DOMAIN coll, <<>>)

RECURSIVE InsertBy(_, _, _, _)
\* insert x into the sequence s sorted on key k (order 1 ascending, -1 descending),
\* after the elements with an equal key
InsertBy(s, x, k, order) ==
    IF s = <<>> THEN <<x>>
    ELSE LET before == IF order = 1 THEN s[1][k] <= x[k] ELSE s[1][k] >= x[k]
         IN IF before THEN <<s[1]>> \o InsertBy(Tail(s), x, k, order)
            ELSE <<x>> \o s

RECURSIVE SortBy(_, _, _)
\* entries.sort((a, b) => ...) on one key
SortBy(s, k, order) ==
    IF s = <<>> THEN <<>>
    ELSE InsertBy(SortBy(SubSeq(s, 1, Len(s) - 1), k, order), s[Len(s)], k, order)

\* null (no due date, no mood) is 0: no stored date or mood score is 0
Null == 0

\* a > b on two field values: false as soon as one of them is null (null > "2024-01-05"
\* and "2024-01-05" > null are both false)
Greater(a, b) == a # Null /\ b # Null /\ a > b

\* the comparator (a, b) => sortOrder === 1 ? (a[k] > b[k] ? 1 : -1) : (a[k] < b[k] ? 1 : -1)
SortCompare(a, b, k, order) ==
    IF order = 1 THEN (IF Greater(a[k], b[k]) THEN 1 ELSE -1)
    ELSE (IF Greater(b[k], a[k]) THEN 1 ELSE -1)

Reverse(s) == [i \in 1..Len(s) |-> s[Len(s) + 1 - i]]

RECURSIVE RunEnd(_, _, _, _, _)
\* Array.prototype.sort of the runtime on a short array: the length of the leading run,
\* descending when the comparator puts the second element before the first
RunEnd(s, idx, descending, k, order) ==
    IF idx > Len(s) THEN Len(s)
    ELSE LET o == SortCompare(s[idx], s[idx - 1], k, order)
         IN IF (descending /\ o >= 0) \/ (~descending /\ o < 0) THEN idx - 1
            ELSE RunEnd(s, idx + 1, descending, k, order)

RECURSIVE InsertionPoint(_, _, _, _, _, _)
\* binary insertion: the number of elements of the sorted prefix left before the pivot
InsertionPoint(sorted, pivot, left, right, k, order) ==
    IF left >= right THEN left
    ELSE LET mid == left + ((right - left) \div 2)
         IN IF SortCompare(pivot, sorted[mid + 1], k, order) < 0
            THEN InsertionPoint(sorted, pivot, left, mid, k, order)
            ELSE InsertionPoint(sorted, pivot, mid + 1, right, k, order)

RECURSIVE InsertRest(_, _, _, _)
InsertRest(sorted, rest, k, order) ==
    IF rest = <<>> THEN sorted
    ELSE LET at == InsertionPoint(sorted, rest[1], 0, Len(sorted), k, order)
         IN InsertRest(SubSeq(sorted, 1, at) \o <<rest[1]>>
                           \o SubSeq(sorted, at + 1, Len(sorted)),
                       Tail(rest), k, order)

\* tasks.sort(comparator) in the in-memory branch
ArraySort(s, sort) ==
    IF sort.key = "none" \/ Len(s) < 2 THEN s
    ELSE LET descending == SortCompare(s[2], s[1], sort.key, sort.order) < 0
             n == RunEnd(s, 3, descending, sort.key, sort.order)
             run == IF descending THEN Reverse(SubSeq(s, 1, n)) ELSE SubSeq(s, 1, n)
         IN InsertRest(run, SubSeq(s, n + 1, Len(s)), sort.key, sort.order)

NoSort == [key |-> "none", order |-> 0]

ApplySort(s, sort) == IF sort.key = "none" THEN s ELSE SortBy(s, sort.key, sort.order)

-----------------------------------------------------------------------------
(* StorageAdapter *)

EmptyStore ==
    [users |-> <<>>, journalEntries |-> <<>>, tasks |-> <<>>, goals |-> <<>>,
     habits |-> <<>>,
     idCounters |->
        [users |-> 1, journalEntries |-> 1, tasks |-> 1, goals |-> 1, habits |-> 1]]

\* the branch `if (this.isMongoConnected)` of every storage operation
Backend == IF isMongoConnected THEN "db" ELSE "mem"

Store == stores[Backend]

\* .map(([id, x]) => ({ ...x, _id: id, id: id }))
WithId(coll, id) == Assign(coll[id], [_id |-> id])

Docs(coll) == [i \in 1..Len(MapKeys(coll)) |-> WithId(coll, MapKeys(coll)[i])]

\* a find that does not read the owner of the query (variant refuted by C6_OnlyOwnRecords)
QueryKeepsNoOwner(query, f, doc) ==
    f # "user_id" => (Has(query, f) => doc[f] = query[f])

\* a query field that the in-memory branch of findX reads
QueryKeeps(query, f, doc) == Has(query, f) => doc[f] = query[f]

\* generateId(type) / the ObjectId the durable store assigns
generateId(st, type) == st.idCounters[type]

\* `mem_${type}_${n}`: the text of an in-memory identifier
IdText(type, n) == <<"mem", type, n>>

\* a create that leaves the counter where it was (variant refuted by C23_IdsNeverReused)
CreatedCounterKept(st, type, data) ==
    [st EXCEPT ![type] = Assign(st[type], [i \in {generateId(st, type)} |-> data])]

Created(st, type, data) ==
    LET id == generateId(st, type)
    IN [st EXCEPT ![type] = Assign(st[type], [i \in {id} |-> data]),
                  !.idCounters[type] = id + 1]

Updated(st, type, id, updates) ==
    [st EXCEPT ![type] = [i \in DOMAIN st[type] |->
        IF i = id THEN Assign(st[type][i], updates) ELSE st[type][i]]]

Deleted(st, type, id) ==
    [st EXCEPT ![type] = [i \in (DOMAIN st[type]) \ {id} |-> st[type][i]]]

\* route parameters that are no ObjectId (not 24 hex digits) and no in-memory key
MalformedIds == {-1}

\* Model.deleteOne(query) casts query._id to an ObjectId and rejects when it cannot; the
\* handler's catch answers 500.  The in-memory Map only misses the key.
DeleteMiss(id) == IF isMongoConnected /\ id \in MalformedIds THEN 500 ELSE 404

\* deleteTask / deleteGoal / deleteHabit: the record is removed when it exists and
\* its user_id matches the query's
DeleteMatches(st, type, query) ==
    /\ query._id \in DOMAIN st[type]
    /\ st[type][query._id].user_id = query.user_id

findHabitsMem(st, query, sort) ==
    ApplySort(SelectSeq(Docs(st.habits),
                        LAMBDA h : /\ QueryKeeps(query, "user_id", h)
                                   /\ QueryKeeps(query, "active", h)),
              sort)

findHabitsDb(st, query, sort) ==
    ApplySort(SelectSeq(Docs(st.habits),
                        LAMBDA h : \A f \in DOMAIN query : h[f] = query[f]),
              sort)

findHabits(st, query, sort) ==
    IF isMongoConnected THEN findHabitsDb(st, query, sort)
    ELSE findHabitsMem(st, query, sort)

findGoals(st, query, sort) ==
    ApplySort(SelectSeq(Docs(st.goals),
                        LAMBDA g : /\ QueryKeeps(query, "user_id", g)
                                   /\ QueryKeeps(query, "status", g)),
              sort)

-----------------------------------------------------------------------------
(* Responses *)

NoBody == [none |-> TRUE]

\* arg is the :id of the path, or the query parameter
Response(op, caller, arg, status, body) ==
    [op |-> op, caller |-> caller, arg |-> arg, status |-> status, body |-> body]

Route == routed' = routed \cup {Backend}

-----------------------------------------------------------------------------
(* Habit handlers *)

RECURSIVE StreakFrom(_, _, _)
\* the loop over sortedCompletions: +1 per step of one day, stop at a larger step
StreakFrom(sorted, i, streak) ==
    IF i > Len(sorted) THEN streak
    ELSE LET diffDays == sorted[i - 1] - sorted[i]
         IN IF diffDays = 1 THEN StreakFrom(sorted, i + 1, streak + 1)
            ELSE IF diffDays > 1 THEN streak
            ELSE StreakFrom(sorted, i + 1, streak)

RECURSIVE SortDesc(_)
\* .sort().reverse() on the completion dates
SortDesc(s) ==
    IF s = <<>> THEN <<>>
    ELSE LET m == CHOOSE i \in 1..Len(s) : \A j \in 1..Len(s) : s[i] >= s[j]
         IN <<s[m]>> \o SortDesc([k \in 1..(Len(s) - 1) |-> IF k < m THEN s[k] ELSE s[k + 1]])

CurrentStreak(completions) == StreakFrom(SortDesc(completions), 2, 1)

\* POST /api/habits
CreateHabit(u) ==
    /\ stores' = [stores EXCEPT ![Backend] =
          Created(Store, "habits",
                  [user_id |-> u, completions |-> <<>>,
                   streak |-> [current |-> 0, longest |-> 0],
                   active |-> TRUE])]
    /\ res' = Response("POST /api/habits", u, Store.idCounters.habits, 201, NoBody)
    /\ Route
    /\ UNCHANGED <<connState, isMongoConnected, now, pending>>

\* the request bodies of PUT /api/habits/:id that the model draws from
HabitUpdates == {[active |-> FALSE], [completions |-> <<1, 1>>]}

\* PUT /api/habits/:id
UpdateHabit(u, id, body) ==
    /\ IF id \in DOMAIN Store.habits
       THEN /\ stores' = [stores EXCEPT ![Backend] =
                   Updated(Store, "habits", id, body)]
            /\ res' = Response("PUT /api/habits/:id", u, id, 200, NoBody)
       ELSE /\ res' = Response("PUT /api/habits/:id", u, id, 404, NoBody)
            /\ UNCHANGED stores
    /\ Route
    /\ UNCHANGED <<connState, isMongoConnected, now, pending>>

\* the habit the completion handler reads: habits[0] of the query's result
HabitRead(u, id) == findHabits(Store, [_id |-> id, user_id |-> u], NoSort)

\* POST /api/habits/:id/complete
CompleteHabit(u, id) ==
    LET habits == HabitRead(u, id)
        op == "POST /api/habits/:id/complete"
    IN /\ IF habits = <<>>
          THEN /\ res' = Response(op, u, id, 404, NoBody)
               /\ UNCHANGED stores
          ELSE LET habit == habits[1]
                   today == now
                   alreadyCompleted == \E i \in 1..Len(habit.completions) :
                                           habit.completions[i] = today
                   completions == Append(habit.completions, now)
                   currentStreak == CurrentStreak(completions)
                   longestStreak == Max2(currentStreak, habit.streak.longest)
               IN IF alreadyCompleted
                  THEN /\ res' = Response(op, u, id, 400, NoBody)
                       /\ UNCHANGED stores
                  ELSE \* updateHabit returns null for an unknown id: res.json(null)
                       /\ stores' = [stores EXCEPT ![Backend] =
                              IF id \in DOMAIN Store.habits
                              THEN Updated(Store, "habits", id,
                                     [completions |-> completions,
                                      streak |-> [current |-> currentStreak,
                                                  longest |-> longestStreak]])
                              ELSE Store]
                       /\ res' = Response(op, u, id, 200, NoBody)
       /\ Route
       /\ UNCHANGED <<connState, isMongoConnected, now, pending>>

\* DELETE /api/habits/:id
DeleteHabit(u, id) ==
    /\ IF DeleteMatches(Store, "habits", [_id |-> id, user_id |-> u])
       THEN /\ stores' = [stores EXCEPT ![Backend] = Deleted(Store, "habits", id)]
            /\ res' = Response("DELETE /api/habits/:id", u, id, 200, NoBody)
       ELSE /\ res' = Response("DELETE /api/habits/:id", u, id, DeleteMiss(id), NoBody)
            /\ UNCHANGED stores
    /\ Route
    /\ UNCHANGED <<connState, isMongoConnected, now, pending>>

-----------------------------------------------------------------------------
(* Goal handlers *)

\* POST /api/goals
CreateGoal(u) ==
    /\ stores' = [stores EXCEPT ![Backend] =
          Created(Store, "goals", [user_id |-> u, progress |-> 0, status |-> "active"])]
    /\ res' = Response("POST /api/goals", u, Store.idCounters.goals, 201, NoBody)
    /\ Route
    /\ UNCHANGED <<connState, isMongoConnected, now, pending>>

\* the request bodies of PUT /api/goals/:id that the model draws from
GoalUpdates == {[progress |-> 50], [status |-> "completed"]}

\* PUT /api/goals/:id
UpdateGoal(u, id, body) ==
    /\ IF id \in DOMAIN Store.goals
       THEN /\ stores' = [stores EXCEPT ![Backend] = Updated(Store, "goals", id, body)]
            /\ res' = Response("PUT /api/goals/:id", u, id, 200, NoBody)
       ELSE /\ res' = Response("PUT /api/goals/:id", u, id, 404, NoBody)
            /\ UNCHANGED stores
    /\ Route
    /\ UNCHANGED <<connState, isMongoConnected, now, pending>>

\* DELETE /api/goals/:id
DeleteGoal(u, id) ==
    /\ IF DeleteMatches(Store, "goals", [_id |-> id, user_id |-> u])
       THEN /\ stores' = [stores EXCEPT ![Backend] = Deleted(Store, "goals", id)]
            /\ res' = Response("DELETE /api/goals/:id", u, id, 200, NoBody)
       ELSE /\ res' = Response("DELETE /api/goals/:id", u, id, DeleteMiss(id), NoBody)
            /\ UNCHANGED stores
    /\ Route
    /\ UNCHANGED <<connState, isMongoConnected, now, pending>>

-----------------------------------------------------------------------------
(* The clock *)

Tick ==
    /\ now' = now + 1
    /\ UNCHANGED <<connState, isMongoConnected, stores, res, routed, pending>>

-----------------------------------------------------------------------------
(* Journal entries and tasks in the StorageAdapter *)

\* Mood scores are kept in tenths (7.5 is 75), because the upstream may supply a fraction.
Tenths(n) == 10 * n

\* A transcription is its sequence of lower-cased words; the sentinel is one word.
Sentinel == "TASK_COMPLETED:"

\* entry.transcription.startsWith('TASK_COMPLETED:') and the $regex '^TASK_COMPLETED:'
StartsWithSentinel(transcription) ==
    Len(transcription) > 0 /\ transcription[1] = Sentinel

\* created_at grows with the identifier: the newest entry first
ByCreatedDesc == [key |-> "_id", order |-> -1]
ByCreatedAsc == [key |-> "_id", order |-> 1]
ByDueDateAsc == [key |-> "due_date", order |-> 1]

findJournalEntries(st, query, sort) ==
    ApplySort(SelectSeq(Docs(st.journalEntries),
                        LAMBDA e : /\ QueryKeeps(query, "user_id", e)
                                   /\ (Has(query, "regex") =>
                                          StartsWithSentinel(e.transcription))
                                   /\ (Has(query, "mood_score_ne") =>
                                          e.mood_score # query.mood_score_ne)),
              sort)

findTasks(st, query, sort) ==
    IF isMongoConnected
    THEN ApplySort(SelectSeq(Docs(st.tasks), LAMBDA t : QueryKeeps(query, "user_id", t)),
                   sort)
    ELSE ArraySort(SelectSeq(Docs(st.tasks), LAMBDA t : QueryKeeps(query, "user_id", t)),
                   sort)

\* findTask: the task of that identifier when its user_id is the query's, else null
findTask(st, query) ==
    IF query._id \in DOMAIN st.tasks /\ st.tasks[query._id].user_id = query.user_id
    THEN <<WithId(st.tasks, query._id)>>
    ELSE <<>>

-----------------------------------------------------------------------------
(* Task handlers *)

\* POST /api/tasks
CreateTask(u, title, due_date) ==
    /\ stores' = [stores EXCEPT ![Backend] =
          Created(Store, "tasks",
                  [user_id |-> u, title |-> title, due_date |-> due_date,
                   completed |-> FALSE])]
    /\ res' = Response("POST /api/tasks", u, Store.idCounters.tasks, 201, NoBody)
    /\ Route
    /\ UNCHANGED <<connState, isMongoConnected, now, pending>>

\* a test that forgets the stored flag (variant refuted by C4_EntryOnlyOnCompletion)
IsBeingCompletedAnyTrue(wasCompleted, updates) ==
    Has(updates, "completed") /\ updates.completed = TRUE

\* if (!wasCompleted && updates.completed === true)
IsBeingCompleted(wasCompleted, updates) ==
    ~wasCompleted /\ Has(updates, "completed") /\ updates.completed = TRUE

\* the journal entry that records a task completion
CompletionEntry(u, title) ==
    [user_id |-> u, transcription |-> <<Sentinel, title>>,
     mood_score |-> Tenths(8), created_at |-> now]

\* PUT /api/tasks/:id
UpdateTask(u, id, updates) ==
    LET currentTask == findTask(Store, [_id |-> id, user_id |-> u])
        op == "PUT /api/tasks/:id"
    IN /\ IF currentTask = <<>>
          THEN /\ res' = Response(op, u, id, 404, NoBody)
               /\ UNCHANGED stores
          ELSE LET wasCompleted == currentTask[1].completed
                   updated == Updated(Store, "tasks", id, updates)
                   task == updated.tasks[id]
               IN /\ stores' = [stores EXCEPT ![Backend] =
                         IF IsBeingCompleted(wasCompleted, updates)
                         THEN Created(updated, "journalEntries",
                                      CompletionEntry(u, task.title))
                         ELSE updated]
                  /\ res' = Response(op, u, id, 200, NoBody)
       /\ Route
       /\ UNCHANGED <<connState, isMongoConnected, now, pending>>

\* DELETE /api/tasks/:id
DeleteTask(u, id) ==
    /\ IF DeleteMatches(Store, "tasks", [_id |-> id, user_id |-> u])
       THEN /\ stores' = [stores EXCEPT ![Backend] = Deleted(Store, "tasks", id)]
            /\ res' = Response("DELETE /api/tasks/:id", u, id, 200, NoBody)
       ELSE /\ res' = Response("DELETE /api/tasks/:id", u, id, DeleteMiss(id), NoBody)
            /\ UNCHANGED stores
    /\ Route
    /\ UNCHANGED <<connState, isMongoConnected, now, pending>>

-----------------------------------------------------------------------------
(* POST /api/ai/analyze *)

positiveWords ==
    <<"good", "great", "amazing", "wonderful", "happy", "excited", "proud",
      "accomplished", "successful", "joy">>
negativeWords ==
    <<"bad", "terrible", "awful", "sad", "depressed", "angry", "frustrated",
      "stressed", "worried", "difficult">>

\* words.filter(word => lowerTranscription.includes(word)).length
CountIncluded(words, transcription) ==
    Cardinality({i \in 1..Len(words) : words[i] \in Range(transcription)})

\* The transcriptions of the model: an optional sentinel, a neutral word, then the
\* first k positive and the first m negative words; and the empty transcription.
Transcription(sentinel, k, m) ==
    (IF sentinel THEN <<Sentinel>> ELSE <<>>) \o <<"today">>
        \o SubSeq(positiveWords, 1, k) \o SubSeq(negativeWords, 1, m)

Transcriptions ==
    {<<>>} \cup {Transcription(s, k, m) : s \in BOOLEAN, k \in 0..MaxWords, m \in 0..MaxWords}

\* A moodScore of the upstream's JSON: a number (in tenths), a string (its parseInt
\* value, or NaN), a boolean, or absent.
Num(v10) == [type |-> "number", v10 |-> v10, nan |-> FALSE]
Str(n) == [type |-> "string", v10 |-> Tenths(n), nan |-> FALSE]
StrNaN == [type |-> "string", v10 |-> 0, nan |-> TRUE]
BoolTrue == [type |-> "boolean", v10 |-> 0, nan |-> TRUE]
Absent == [type |-> "absent", v10 |-> 0, nan |-> TRUE]

MoodValues ==
    {Num(v) : v \in {-30, 0, 5, 10, 70, 75, 100, 107, 110}}
      \cup {Str(n) : n \in {-3, 0, 7, 15}} \cup {StrNaN, BoolTrue, Absent}

\* The suggestions of the upstream's JSON: an array (here of 0 or 3), a string, absent.
SuggestionValues == {"[]", "[a,b,c]", "string", "absent"}

\* the number of suggestions after "Ensure suggestions is array"
SuggestionCount(suggestions) ==
    IF suggestions = "[]" THEN 0 ELSE IF suggestions = "[a,b,c]" THEN 3 ELSE 1

\* What the upstream call gives: a rejection, text that JSON.parse refuses, JSON that
\* is no object, or an object with (some of) the fields.
UpstreamError == [kind |-> "error"]
InvalidJson == [kind |-> "invalid"]
NotAnObject == [kind |-> "null"]
UpstreamObject(summary, suggestions, moodScore) ==
    [kind |-> "object", summary |-> summary, suggestions |-> suggestions,
     moodScore |-> moodScore]

Upstreams ==
    {UpstreamError, InvalidJson, NotAnObject}
      \cup {UpstreamObject(s, g, m) :
              s \in BOOLEAN, g \in SuggestionValues, m \in MoodValues}

\* !parsedResponse.moodScore
Falsy(moodScore) ==
    \/ moodScore.type = "absent"
    \/ moodScore.type = "number" /\ moodScore.v10 = 0

\* parseInt(x): the integer part, or NaN
ParseInt(moodScore) ==
    IF moodScore.v10 >= 0 THEN moodScore.v10 \div 10 ELSE -((-moodScore.v10) \div 10)

\* the "Validate mood score" step
ValidMoodScore(moodScore) ==
    IF moodScore.type # "number" \/ moodScore.v10 < Tenths(1) \/ moodScore.v10 > Tenths(10)
    THEN LET parsed == IF moodScore.nan \/ ParseInt(moodScore) = 0
                       THEN 5 ELSE ParseInt(moodScore)
         IN Tenths(Max2(1, Min2(10, parsed)))
    ELSE moodScore.v10

\* the try block throws: JSON.parse fails, a field of null is read, or a field is missing
ParseThrows(upstream) ==
    \/ upstream.kind \in {"invalid", "null"}
    \/ /\ upstream.kind = "object"
       /\ \/ ~upstream.summary
          \/ upstream.suggestions = "absent"
          \/ Falsy(upstream.moodScore)

\* the sanitized upstream object
ParsedResponse(upstream) ==
    [summary |-> "upstream", suggestions |-> SuggestionCount(upstream.suggestions),
     moodScore |-> ValidMoodScore(upstream.moodScore)]

\* the keyword count without its Math.min/Math.max (variant refuted by
\* C8_UnparsableFallsBack)
FallbackMoodScoreUnclamped(transcription) ==
    LET positiveCount == CountIncluded(positiveWords, transcription)
        negativeCount == CountIncluded(negativeWords, transcription)
    IN IF positiveCount > negativeCount THEN 6 + positiveCount
       ELSE IF negativeCount > positiveCount THEN 5 - negativeCount
       ELSE 5

\* the keyword-count fallback
FallbackMoodScore(transcription) ==
    LET positiveCount == CountIncluded(positiveWords, transcription)
        negativeCount == CountIncluded(negativeWords, transcription)
    IN IF positiveCount > negativeCount THEN Min2(9, 6 + positiveCount)
       ELSE IF negativeCount > positiveCount THEN Max2(2, 5 - negativeCount)
       ELSE 5

FallbackResponse(transcription) ==
    [summary |-> "fallback", suggestions |-> 3,
     moodScore |-> Tenths(FallbackMoodScore(transcription))]

\* the handler, for a request of user u and the answer the upstream gives to it
AnalyzeCore(u, transcription, upstream) ==
    LET op == "POST /api/ai/analyze"
    IN IF transcription = <<>>
       THEN /\ res' = Response(op, u, 0, 400, NoBody)
            /\ UNCHANGED <<stores, routed>>
       ELSE IF upstream.kind = "error"
       THEN \* generateContent rejects outside the inner try: the outer catch answers
            /\ res' = Response(op, u, 0, 500, NoBody)
            /\ UNCHANGED <<stores, routed>>
       ELSE LET parsedResponse == IF ParseThrows(upstream)
                                  THEN FallbackResponse(transcription)
                                  ELSE ParsedResponse(upstream)
            IN /\ stores' = [stores EXCEPT ![Backend] =
                      Created(Store, "journalEntries",
                              [user_id |-> u, transcription |-> transcription,
                               mood_score |-> parsedResponse.moodScore,
                               created_at |-> now])]
               /\ res' = Response(op, u, Store.idCounters.journalEntries, 200,
                                  parsedResponse)
               /\ Route

Analyze(u, transcription, upstream) ==
    /\ AnalyzeCore(u, transcription, upstream)
    /\ UNCHANGED <<connState, isMongoConnected, now, pending>>

NoRequest == [kind |-> "none"]

AnalyzeRequest(u, transcription, upstream) ==
    [kind |-> "analyze", user |-> u, transcription |-> transcription,
     upstream |-> upstream]

\* the request in flight is handled
AnalyzePending ==
    /\ pending.kind = "analyze"
    /\ AnalyzeCore(pending.user, pending.transcription, pending.upstream)
    /\ pending' = NoRequest
    /\ UNCHANGED <<connState, isMongoConnected, now>>

-----------------------------------------------------------------------------
(* GET /api/dashboard *)

RECURSIVE Sum(_, _)
\* reduce((sum, x) => sum + x[f], 0)
Sum(s, f) == IF s = <<>> THEN 0 ELSE s[1][f] + Sum(Tail(s), f)

\* Math.round(total / n) for n > 0 and total >= 0
RoundDiv(total, n) == (2 * total + n) \div (2 * n)

Take(s, n) == SubSeq(s, 1, Min2(n, Len(s)))

\* toISOString(entry.created_at).split('T')[0]
DateOf(entry) == entry.created_at

RECURSIVE StreakLoop(_, _, _, _)
\* the for loop over sortedEntries, i counted from 1
StreakLoop(sortedEntries, i, checkDate, currentStreak) ==
    IF i > Len(sortedEntries) THEN currentStreak
    ELSE LET entryDate == DateOf(sortedEntries[i])
         IN IF entryDate = checkDate
            THEN StreakLoop(sortedEntries, i + 1, checkDate - 1,
                            IF i = 1 \/ entryDate # DateOf(sortedEntries[i - 1])
                            THEN i ELSE currentStreak)
            ELSE currentStreak

\* currentStreak of the dashboard
JournalStreak(realJournalEntries, today) ==
    IF \E i \in 1..Len(realJournalEntries) : DateOf(realJournalEntries[i]) = today
    THEN StreakLoop(SortBy(realJournalEntries, "_id", -1), 1, today, 1)
    ELSE 0

\* realJournalEntries.find(entry => date of entry = dateStr)
MoodPoint(entries, date) ==
    LET found == SelectSeq(entries, LAMBDA e : DateOf(e) = date)
    IN IF found = <<>>
       THEN [fullDate |-> date, mood |-> 0, isNull |-> TRUE, hasEntry |-> FALSE]
       ELSE [fullDate |-> date, mood |-> found[1].mood_score, isNull |-> FALSE,
             hasEntry |-> TRUE]

last7Days(entries, today) == [k \in 1..7 |-> MoodPoint(entries, today - (7 - k))]

\* the rule table, in declaration order
\* v: the figures the rules read
Insights(v) ==
    LET averageMoodSum == v.averageMoodSum
        moodCount == v.moodCount
        currentStreak == v.currentStreak
        totalSessions == v.totalSessions
        habitsCompletedToday == v.habitsCompletedToday
        totalActiveHabits == v.totalActiveHabits
        activeGoalsCount == v.activeGoalsCount
        goalProgressSum == v.goalProgressSum
        overdueTasks == v.overdueTasks
        completedTasksCount == v.completedTasksCount
        high == moodCount > 0 /\ averageMoodSum >= Tenths(7) * moodCount
        low == /\ moodCount > 0
               /\ averageMoodSum < Tenths(5) * moodCount
               /\ averageMoodSum > 0
    IN (IF high THEN <<"Great Mood Trend">>
        ELSE IF low THEN <<"Self-Care Reminder">> ELSE <<>>)
       \o (IF currentStreak >= 7 THEN <<"Amazing Streak!">>
           ELSE IF currentStreak = 0 /\ totalSessions > 0 THEN <<"Check-in Reminder">>
           ELSE <<>>)
       \o (IF totalActiveHabits > 0 /\ habitsCompletedToday = totalActiveHabits
           THEN <<"All Habits Complete!">>
           ELSE IF totalActiveHabits > 0 /\ habitsCompletedToday > 0
           THEN <<"Habit Progress">> ELSE <<>>)
       \o (IF activeGoalsCount > 0 /\ goalProgressSum >= 75 * activeGoalsCount
           THEN <<"Goals On Track">>
           ELSE IF activeGoalsCount > 0 /\ goalProgressSum < 25 * activeGoalsCount
           THEN <<"Goal Momentum">> ELSE <<>>)
       \o (IF overdueTasks > 0 THEN <<"Overdue Tasks">> ELSE <<>>)
       \o (IF high /\ completedTasksCount >= 5 THEN <<"Productivity Pattern">> ELSE <<>>)

\* no filter on the prefix (variant refuted by C5_CompletionEntriesExcluded)
RealJournalEntriesUnfiltered(journalEntries) == journalEntries

\* a cut after five (variant refuted by C20_FirstFourInOrder)
TopInsightsFive(insights) == Take(insights, 5)

\* insights.slice(0, 4)
TopInsights(insights) == Take(insights, 4)

\* The insight rules applied to a stats snapshot in flight
InsightsRequest(u, v) == [kind |-> "insights", user |-> u, snapshot |-> v]

InsightsPending ==
    /\ pending.kind = "insights"
    /\ res' = Response("insights", pending.user, pending.snapshot, 200,
                       [insights |-> TopInsights(Insights(pending.snapshot))])
    /\ pending' = NoRequest
    /\ UNCHANGED <<connState, isMongoConnected, stores, now, routed>>

\* journalEntries.filter(entry => !entry.transcription.startsWith('TASK_COMPLETED:'))
RealJournalEntries(journalEntries) ==
    SelectSeq(journalEntries, LAMBDA e : ~StartsWithSentinel(e.transcription))

\* the response body; `now` lies inside the UTC day today
Dashboard(st, u, today) ==
    LET journalEntries == findJournalEntries(st, [user_id |-> u], ByCreatedDesc)
        tasks == findTasks(st, [user_id |-> u], ByDueDateAsc)
        completionEntries ==
            findJournalEntries(st, [user_id |-> u, regex |-> TRUE], NoSort)
        completedTasksCount ==
            Len(completionEntries) + Len(SelectSeq(tasks, LAMBDA t : t.completed))
        realJournalEntries == RealJournalEntries(journalEntries)
        totalSessions == Len(realJournalEntries)
        moodEntries == SelectSeq(realJournalEntries, LAMBDA e : e.mood_score # 0)
        averageMoodSum == Sum(moodEntries, "mood_score")
        currentStreak == JournalStreak(realJournalEntries, today)
        upcomingTasks ==
            Take(SelectSeq(tasks, LAMBDA t : /\ t.due_date # Null
                                             /\ t.due_date <= today + 3
                                             /\ ~t.completed), 5)
        goals == findGoals(st, [user_id |-> u, status |-> "active"], ByCreatedDesc)
        habits == findHabits(st, [user_id |-> u, active |-> TRUE], ByCreatedDesc)
        habitsCompletedToday ==
            Len(SelectSeq(habits, LAMBDA h : today \in Range(h.completions)))
        goalProgressSum == Sum(goals, "progress")
        overdueTasks ==
            Len(SelectSeq(tasks, LAMBDA t : /\ t.due_date # Null
                                            /\ ~t.completed
                                            /\ t.due_date <= today))
    IN [stats |->
          [totalSessions |-> totalSessions,
           currentStreak |-> currentStreak,
           averageMood |-> IF moodEntries = <<>> THEN 0
                           ELSE RoundDiv(averageMoodSum, Len(moodEntries)),
           completedTasks |-> completedTasksCount,
           activeGoals |-> Len(goals),
           activeHabits |-> Len(habits),
           habitsCompletedToday |-> habitsCompletedToday,
           goalProgress |-> IF goals = <<>> THEN 0
                            ELSE RoundDiv(goalProgressSum, Len(goals))],
        moodData |-> last7Days(realJournalEntries, today),
        recentEntries |-> Take(realJournalEntries, 5),
        upcomingTasks |-> upcomingTasks,
        activeGoals |-> Take(goals, 3),
        todayHabits |-> Take(habits, 5),
        insights |->
          TopInsights(Insights([averageMoodSum |-> averageMoodSum,
                                moodCount |-> Len(moodEntries),
                                currentStreak |-> currentStreak,
                                totalSessions |-> totalSessions,
                                habitsCompletedToday |-> habitsCompletedToday,
                                totalActiveHabits |-> Len(habits),
                                activeGoalsCount |-> Len(goals),
                                goalProgressSum |-> goalProgressSum,
                                overdueTasks |-> overdueTasks,
                                completedTasksCount |-> completedTasksCount]))]

GetDashboard(u) ==
    /\ res' = Response("GET /api/dashboard", u, 0, 200, Dashboard(Store, u, now))
    /\ Route
    /\ UNCHANGED <<connState, isMongoConnected, stores, now, pending>>

-----------------------------------------------------------------------------
(* The list, analytics and export handlers *)

\* GET /api/tasks
GetTasks(u) ==
    /\ res' = Response("GET /api/tasks", u, 0, 200,
                       findTasks(Store, [user_id |-> u], ByCreatedDesc))
    /\ Route
    /\ UNCHANGED <<connState, isMongoConnected, stores, now, pending>>

\* GET /api/journal
GetJournal(u) ==
    /\ res' = Response("GET /api/journal", u, 0, 200,
                       findJournalEntries(Store, [user_id |-> u], ByCreatedDesc))
    /\ Route
    /\ UNCHANGED <<connState, isMongoConnected, stores, now, pending>>

\* GET /api/goals, with or without ?status=
GoalsQuery(u, status) ==
    IF status = "" THEN [user_id |-> u] ELSE [user_id |-> u, status |-> status]

GetGoals(u, status) ==
    /\ res' = Response("GET /api/goals", u, status, 200,
                       findGoals(Store, GoalsQuery(u, status), ByCreatedDesc))
    /\ Route
    /\ UNCHANGED <<connState, isMongoConnected, stores, now, pending>>

\* GET /api/habits, with or without ?active=
HabitsQuery(u, active) ==
    IF active = "" THEN [user_id |-> u] ELSE [user_id |-> u, active |-> (active = "true")]

GetHabits(u, active) ==
    /\ res' = Response("GET /api/habits", u, active, 200,
                       findHabits(Store, HabitsQuery(u, active), ByCreatedDesc))
    /\ Route
    /\ UNCHANGED <<connState, isMongoConnected, stores, now, pending>>

RECURSIVE MaxOf(_, _)
\* Math.max(...scores, 0)
MaxOf(s, f) == IF s = <<>> THEN 0 ELSE Max2(s[1][f], MaxOf(Tail(s), f))

RECURSIVE MinOf(_, _)
\* Math.min(...scores) of a non-empty list
MinOf(s, f) ==
    IF Len(s) = 1 THEN s[1][f] ELSE Min2(s[1][f], MinOf(Tail(s), f))

\* one point of the series: the day's mean mood, or null
AnalyticsPoint(entries, date) ==
    LET dayEntries == SelectSeq(entries, LAMBDA e : DateOf(e) = date)
    IN IF dayEntries = <<>>
       THEN [fullDate |-> date, mood |-> 0, isNull |-> TRUE, hasEntry |-> FALSE]
       ELSE [fullDate |-> date,
             mood |-> RoundDiv(Sum(dayEntries, "mood_score"), Len(dayEntries)),
             isNull |-> Sum(dayEntries, "mood_score") = 0,
             hasEntry |-> TRUE]

\* loops that stop one day early (variant refuted by C19_OnePointPerDay)
PeriodDaysShort(period) ==
    IF period = "weekly" THEN 6 ELSE IF period = "monthly" THEN 29 ELSE 0

PeriodDays(period) ==
    IF period = "weekly" THEN 7 ELSE IF period = "monthly" THEN 30 ELSE 0

MoodAnalytics(st, u, period, today) ==
    LET entries == findJournalEntries(st, [user_id |-> u, mood_score_ne |-> Null],
                                      ByCreatedAsc)
        n == PeriodDays(period)
    IN [period |-> period,
        data |-> [k \in 1..n |-> AnalyticsPoint(entries, today - (n - k))],
        stats |-> [average |-> IF entries = <<>> THEN 0
                               ELSE RoundDiv(Sum(entries, "mood_score"), Len(entries)),
                   highest |-> MaxOf(entries, "mood_score"),
                   lowest |-> IF entries = <<>> THEN 0 ELSE MinOf(entries, "mood_score"),
                   totalEntries |-> Len(entries)]]

\* GET /api/mood/analytics?period=
GetMoodAnalytics(u, period) ==
    /\ res' = Response("GET /api/mood/analytics", u, period, 200,
                       MoodAnalytics(Store, u, period, now))
    /\ Route
    /\ UNCHANGED <<connState, isMongoConnected, stores, now, pending>>

\* the four lists an export reads
ExportData(st, u) ==
    [journal_entries |-> findJournalEntries(st, [user_id |-> u], ByCreatedDesc),
     tasks |-> findTasks(st, [user_id |-> u], ByCreatedDesc),
     goals |-> findGoals(st, [user_id |-> u], ByCreatedDesc),
     habits |-> findHabits(st, [user_id |-> u], ByCreatedDesc)]

\* the csv rows: date, mood score, transcription of every journal entry
ExportCsv(st, u) ==
    LET journalEntries == ExportData(st, u).journal_entries
    IN [i \in 1..Len(journalEntries) |->
          [created_at |-> journalEntries[i].created_at,
           mood_score |-> journalEntries[i].mood_score,
           transcription |-> journalEntries[i].transcription]]

\* GET /api/export?format=
Export(u, format) ==
    /\ res' = Response("GET /api/export", u, format, 200,
                       IF format = "csv" THEN [csv |-> ExportCsv(Store, u)]
                       ELSE ExportData(Store, u))
    /\ Route
    /\ UNCHANGED <<connState, isMongoConnected, stores, now, pending>>

-----------------------------------------------------------------------------
(* Authentication *)

\* if (password.length < 6)
MinPasswordLength == 6

\* The strings of the request bodies: "" stands for a missing field as well, both
\* being falsy.
Emails == {"", "a@x", "A@x", "b@x", "B@x"}
Passwords == {"", "abc12", "abc123", "xyz7890"}
Names == {"", "Ann"}

\* the email as submitted (variant refuted by C12_DuplicateEmailRejected)
ToLowerCaseAsIs(email) == email

\* email.toLowerCase()
ToLowerCase(email) ==
    CASE email = "A@x" -> "a@x"
      [] email = "B@x" -> "b@x"
      [] OTHER -> email

\* bcrypt.hash(password, rounds) and bcrypt.compare(password, hashedPassword)
hashPassword(password) == [bcrypt |-> password]
validatePassword(password, hashedPassword) == hashedPassword = [bcrypt |-> password]

\* jwt.sign({ userId }, secret, { expiresIn })
generateToken(userId) == [kind |-> "valid", userId |-> userId]

NoUser == [none |-> TRUE]

\* storage.findUser({ email })
findUser(st, query) ==
    LET found == {i \in DOMAIN st.users : st.users[i].email = query.email}
    IN IF found = {} THEN NoUser
       ELSE WithId(st.users, CHOOSE i \in found : \A j \in found : i <= j)

\* a response that hands the whole user record out (variant refuted by
\* C14_NoPasswordInResponse)
userWholeRecord(user) == user

\* the user object of the register and login responses
userWithoutPassword(user) == [id |-> user._id, email |-> user.email, name |-> user.name]

ErrorBody(message) == [error |-> message]

\* a registration without the length test (variant refuted by
\* C11_InvalidRegistrationRejected)
RegisterOutcomeAnyLength(st, email, password, name) ==
    IF email = "" \/ password = "" \/ name = ""
    THEN [status |-> 400, body |-> ErrorBody("Email, password, and name are required"),
          reads |-> FALSE, creates |-> FALSE]
    ELSE IF findUser(st, [email |-> ToLowerCase(email)]) # NoUser
    THEN [status |-> 400, body |-> ErrorBody("User already exists"),
          reads |-> TRUE, creates |-> FALSE]
    ELSE [status |-> 201,
          body |-> [token |-> generateToken(generateId(st, "users")),
                    user |-> [id |-> generateId(st, "users"),
                              email |-> ToLowerCase(email), name |-> name],
                    message |-> "Registration successful"],
          reads |-> TRUE, creates |-> TRUE]

\* the answer of POST /api/auth/register and whether a user is created
RegisterOutcome(st, email, password, name) ==
    IF email = "" \/ password = "" \/ name = ""
    THEN [status |-> 400, body |-> ErrorBody("Email, password, and name are required"),
          reads |-> FALSE, creates |-> FALSE]
    ELSE IF Len(password) < MinPasswordLength
    THEN [status |-> 400, body |-> ErrorBody("Password must be at least 6 characters"),
          reads |-> FALSE, creates |-> FALSE]
    ELSE IF findUser(st, [email |-> ToLowerCase(email)]) # NoUser
    THEN [status |-> 400, body |-> ErrorBody("User already exists"),
          reads |-> TRUE, creates |-> FALSE]
    ELSE LET newUser == [_id |-> generateId(st, "users"),
                         email |-> ToLowerCase(email),
                         password |-> hashPassword(password), name |-> name]
         IN [status |-> 201,
             body |-> [token |-> generateToken(newUser._id),
                       user |-> userWithoutPassword(newUser),
                       message |-> "Registration successful"],
             reads |-> TRUE, creates |-> TRUE]

\* POST /api/auth/register
Register(email, password, name) ==
    LET out == RegisterOutcome(Store, email, password, name)
    IN /\ res' = Response("POST /api/auth/register", "none", email, out.status, out.body)
       /\ stores' = IF out.creates
                    THEN [stores EXCEPT ![Backend] =
                            Created(Store, "users",
                                    [email |-> ToLowerCase(email),
                                     password |-> hashPassword(password),
                                     name |-> name])]
                    ELSE stores
       /\ routed' = IF out.reads THEN routed \cup {Backend} ELSE routed
       /\ UNCHANGED <<connState, isMongoConnected, now, pending>>

\* a login that tells an unknown email apart (variant refuted by
\* C13_LoginFailuresAlike)
LoginOutcomeTelling(st, email, password) ==
    IF email = "" \/ password = ""
    THEN [status |-> 400, body |-> ErrorBody("Email and password are required"),
          reads |-> FALSE]
    ELSE IF findUser(st, [email |-> ToLowerCase(email)]) = NoUser
    THEN [status |-> 404, body |-> ErrorBody("User not found"), reads |-> TRUE]
    ELSE [status |-> 401, body |-> ErrorBody("Invalid credentials"), reads |-> TRUE]

\* the answer of POST /api/auth/login
LoginOutcome(st, email, password) ==
    IF email = "" \/ password = ""
    THEN [status |-> 400, body |-> ErrorBody("Email and password are required"),
          reads |-> FALSE]
    ELSE LET user == findUser(st, [email |-> ToLowerCase(email)])
         IN IF user = NoUser
            THEN [status |-> 401, body |-> ErrorBody("Invalid credentials"),
                  reads |-> TRUE]
            ELSE IF ~validatePassword(password, user.password)
            THEN [status |-> 401, body |-> ErrorBody("Invalid credentials"),
                  reads |-> TRUE]
            ELSE [status |-> 200,
                  body |-> [token |-> generateToken(user._id),
                            user |-> userWithoutPassword(user),
                            message |-> "Login successful"],
                  reads |-> TRUE]

\* POST /api/auth/login; the update of updated_at leaves the modelled record as it is
Login(email, password) ==
    LET out == LoginOutcome(Store, email, password)
    IN /\ res' = Response("POST /api/auth/login", "none", email, out.status, out.body)
       /\ routed' = IF out.reads THEN routed \cup {Backend} ELSE routed
       /\ UNCHANGED <<connState, isMongoConnected, stores, now, pending>>

\* GET /api/auth/me: req.user is { id: decoded.userId }
Me(u) ==
    /\ res' = Response("GET /api/auth/me", u, 0, 200, [user |-> [id |-> u]])
    /\ UNCHANGED <<connState, isMongoConnected, stores, now, routed, pending>>

-----------------------------------------------------------------------------
(* Requests in flight: a handler gives way to other requests at an await that waits  *)
(* for the database or for bcrypt; between two such awaits it runs alone.            *)

\* the requests that have passed an await and not answered yet
InFlight == IF Has(pending, "requests") THEN pending.requests ELSE {}

Awaiting(requests) ==
    IF requests = {} THEN NoRequest ELSE [kind |-> "awaiting", requests |-> requests]

\* POST /api/auth/register up to `await hashPassword(password)`: the checks and findUser
RegisterCheck(n, email, password, name) ==
    LET out == RegisterOutcome(Store, email, password, name)
    IN /\ \A r \in InFlight : r.n # n
       /\ IF out.creates
          THEN /\ pending' = Awaiting(InFlight \cup
                     {[n |-> n, op |-> "register", email |-> email,
                       password |-> password, name |-> name]})
               /\ UNCHANGED res
          ELSE /\ res' = Response("POST /api/auth/register", "none", email, out.status,
                                  out.body)
               /\ UNCHANGED pending
       /\ routed' = IF out.reads THEN routed \cup {Backend} ELSE routed
       /\ UNCHANGED <<connState, isMongoConnected, stores, now>>

\* POST /api/auth/register from storage.createUser on.  User.create is refused by the
\* unique index of the email path when the email is taken (the catch answers 500); the
\* in-memory Map takes the user.
RegisterCreate(r) ==
    LET email == ToLowerCase(r.email)
        newUser == [_id |-> generateId(Store, "users"), email |-> email,
                    password |-> hashPassword(r.password), name |-> r.name]
    IN /\ r \in InFlight /\ r.op = "register"
       /\ IF isMongoConnected /\ findUser(Store, [email |-> email]) # NoUser
          THEN /\ res' = Response("POST /api/auth/register", "none", r.email, 500,
                                  ErrorBody("Registration failed"))
               /\ UNCHANGED stores
          ELSE /\ stores' = [stores EXCEPT ![Backend] =
                      Created(Store, "users",
                              [email |-> email, password |-> newUser.password,
                               name |-> r.name])]
               /\ res' = Response("POST /api/auth/register", "none", r.email, 201,
                                  [token |-> generateToken(newUser._id),
                                   user |-> userWithoutPassword(newUser),
                                   message |-> "Registration successful"])
       /\ pending' = Awaiting(InFlight \ {r})
       /\ Route
       /\ UNCHANGED <<connState, isMongoConnected, now>>

\* PUT /api/tasks/:id up to the answer of `await storage.findTask(...)` from the database
TaskRead(n, u, id, updates) ==
    LET currentTask == findTask(Store, [_id |-> id, user_id |-> u])
    IN /\ isMongoConnected
       /\ \A r \in InFlight : r.n # n
       /\ IF currentTask = <<>>
          THEN /\ res' = Response("PUT /api/tasks/:id", u, id, 404, NoBody)
               /\ UNCHANGED pending
          ELSE /\ pending' = Awaiting(InFlight \cup
                     {[n |-> n, op |-> "put", user |-> u, id |-> id, updates |-> updates,
                       wasCompleted |-> currentTask[1].completed, title |-> ""]})
               /\ UNCHANGED res
       /\ Route
       /\ UNCHANGED <<connState, isMongoConnected, stores, now>>

\* PUT /api/tasks/:id: `await storage.updateTask(id, ...)`
TaskUpdate(r) ==
    /\ r \in InFlight /\ r.op = "put" /\ r.title = ""
    /\ r.id \in DOMAIN Store.tasks
    /\ stores' = [stores EXCEPT ![Backend] = Updated(Store, "tasks", r.id, r.updates)]
    /\ pending' = Awaiting((InFlight \ {r}) \cup
                              {[r EXCEPT !.title = Store.tasks[r.id].title]})
    /\ Route
    /\ UNCHANGED <<connState, isMongoConnected, now, res>>

\* PUT /api/tasks/:id: the completion test, `await storage.createJournalEntry(...)` and
\* the answer
TaskEntry(r) ==
    /\ r \in InFlight /\ r.op = "put" /\ r.title # ""
    /\ stores' = IF IsBeingCompleted(r.wasCompleted, r.updates)
                 THEN [stores EXCEPT ![Backend] =
                         Created(Store, "journalEntries", CompletionEntry(r.user, r.title))]
                 ELSE stores
    /\ res' = Response("PUT /api/tasks/:id", r.user, r.id, 200, NoBody)
    /\ pending' = Awaiting(InFlight \ {r})
    /\ Route
    /\ UNCHANGED <<connState, isMongoConnected, now>>

-----------------------------------------------------------------------------
(* The authentication middleware *)

\* The Authorization header: none, a token that jwt.verify refuses (forged, or
\* expired), or a token signed by generateToken; userId is the payload's userId.
NoToken == [kind |-> "none", userId |-> "none"]
ForgedToken(u) == [kind |-> "malformed", userId |-> u]
ExpiredToken(u) == [kind |-> "expired", userId |-> u]
Tokens ==
    {NoToken} \cup {ForgedToken(u) : u \in Users} \cup {ExpiredToken(u) : u \in Users}
        \cup {generateToken(u) : u \in Users}

\* a middleware that reads the payload without verifying it (variant refuted by
\* C15_OnlyVerifiedTokensPass)
authenticateTokenDecodeOnly(token) == IF token.kind = "none" THEN 401 ELSE 0

\* authenticateToken: the status it answers, or 0 when it calls next()
authenticateToken(token) ==
    IF token.kind = "none" THEN 401
    ELSE IF token.kind # "valid" THEN 403
    ELSE 0

\* the middleware's answer to a request it stops: 401 without a token, 403 otherwise
Rejected(token, op, arg) ==
    /\ res' = Response(op, "none", arg, authenticateToken(token),
                       ErrorBody(IF authenticateToken(token) = 401
                                 THEN "Access token required" ELSE "Invalid token"))
    /\ UNCHANGED <<connState, isMongoConnected, stores, now, routed, pending>>

\* POST /api/ai/transcribe: acknowledges the upload
Transcribe(u, hasFile) ==
    /\ res' = Response("POST /api/ai/transcribe", u, 0, IF hasFile THEN 200 ELSE 400,
                       NoBody)
    /\ UNCHANGED <<connState, isMongoConnected, stores, now, routed, pending>>

\* POST /api/ai/speak: tells the client to use its own text-to-speech
Speak(u, text) ==
    /\ res' = Response("POST /api/ai/speak", u, 0, IF text = "" THEN 400 ELSE 200,
                       NoBody)
    /\ UNCHANGED <<connState, isMongoConnected, stores, now, routed, pending>>

\* the handler behind the middleware, for the request (op, arg) of the model
Handler(req, u) ==
    CASE req.op = "GET /api/auth/me" -> Me(u)
      [] req.op = "POST /api/ai/transcribe" -> Transcribe(u, TRUE)
      [] req.op = "POST /api/ai/analyze" -> Analyze(u, <<"today">>, req.arg)
      [] req.op = "POST /api/ai/speak" -> Speak(u, "hello")
      [] req.op = "GET /api/dashboard" -> GetDashboard(u)
      [] req.op = "GET /api/tasks" -> GetTasks(u)
      [] req.op = "POST /api/tasks" -> CreateTask(u, "t1", Null)
      [] req.op = "PUT /api/tasks/:id" -> UpdateTask(u, req.arg, [title |-> "t2"])
      [] req.op = "DELETE /api/tasks/:id" -> DeleteTask(u, req.arg)
      [] req.op = "GET /api/journal" -> GetJournal(u)
      [] req.op = "GET /api/mood/analytics" -> GetMoodAnalytics(u, req.arg)
      [] req.op = "GET /api/goals" -> GetGoals(u, req.arg)
      [] req.op = "POST /api/goals" -> CreateGoal(u)
      [] req.op = "PUT /api/goals/:id" -> UpdateGoal(u, req.arg, [progress |-> 50])
      [] req.op = "DELETE /api/goals/:id" -> DeleteGoal(u, req.arg)
      [] req.op = "GET /api/habits" -> GetHabits(u, req.arg)
      [] req.op = "POST /api/habits" -> CreateHabit(u)
      [] req.op = "PUT /api/habits/:id" -> UpdateHabit(u, req.arg, [active |-> FALSE])
      [] req.op = "POST /api/habits/:id/complete" -> CompleteHabit(u, req.arg)
      [] req.op = "DELETE /api/habits/:id" -> DeleteHabit(u, req.arg)
      [] req.op = "GET /api/export" -> Export(u, req.arg)

\* a request with its Authorization header
Request(token, req) ==
    IF authenticateToken(token) = 0
    THEN Handler(req, token.userId)
    ELSE Rejected(token, req.op, req.arg)

-----------------------------------------------------------------------------
(* Startup *)

\* mongoose.connect resolves
ConnectSucceeds ==
    /\ connState = "connecting"
    /\ connState' = "connected"
    /\ isMongoConnected' = TRUE
    /\ UNCHANGED <<stores, now, res, routed, pending>>

\* mongoose.connect rejects (no URI, no server within the timeout)
ConnectFails ==
    /\ connState = "connecting"
    /\ connState' = "failed"
    /\ isMongoConnected' = FALSE
    /\ UNCHANGED <<stores, now, res, routed, pending>>

NoResponse == Response("none", "none", 0, 0, NoBody)

\* module load: isMongoConnected = false, empty maps, connectDB() pending, listening
Init ==
    /\ connState = "connecting"
    /\ isMongoConnected = FALSE
    /\ stores = [mem |-> EmptyStore, db |-> EmptyStore]
    /\ now = 1
    /\ res = NoResponse
    /\ routed = {}
    /\ pending = NoRequest

\* the connection attempt has been settled, either way, before the first request
InitSettled ==
    /\ connState \in {"connected", "failed"}
    /\ isMongoConnected = (connState = "connected")
    /\ stores = [mem |-> EmptyStore, db |-> EmptyStore]
    /\ now = 1
    /\ res = NoResponse
    /\ routed = {}
    /\ pending = NoRequest

\* as InitSettled, with one analyze request in flight
InitAnalyze ==
    /\ connState \in {"connected", "failed"}
    /\ isMongoConnected = (connState = "connected")
    /\ stores = [mem |-> EmptyStore, db |-> EmptyStore]
    /\ now = 1
    /\ res = NoResponse
    /\ routed = {}
    /\ pending \in {AnalyzeRequest(u, t, up) :
                      u \in Users, t \in Transcriptions, up \in Upstreams}

-----------------------------------------------------------------------------
(* Specifications *)

HabitIds == 1..(MaxHabits + 1)
TaskIds == 1..(MaxTasks + 1)
RecordIds == 1..MaxRecords

\* the records created so far in the tasks, goals and habits collections
TotalRecords(st) ==
    (st.idCounters.tasks - 1) + (st.idCounters.goals - 1) + (st.idCounters.habits - 1)
        + (st.idCounters.journalEntries - 1)

\* Habits over several days
NextHabits ==
    \/ \E u \in Users : Store.idCounters.habits <= MaxHabits /\ CreateHabit(u)
    \/ \E u \in Users, id \in HabitIds : UpdateHabit(u, id, [active |-> FALSE])
    \/ \E u \in Users, id \in HabitIds : CompleteHabit(u, id)
    \/ \E u \in Users, id \in HabitIds : DeleteHabit(u, id)
    \/ now < MaxDay /\ Tick

SpecHabits == InitSettled /\ [][NextHabits]_vars

\* Two users writing to tasks, goals and habits
NextOwner ==
    \/ \E u \in Users : TotalRecords(Store) < MaxRecords /\ CreateTask(u, "t1", Null)
    \/ \E u \in Users : TotalRecords(Store) < MaxRecords /\ CreateGoal(u)
    \/ \E u \in Users : TotalRecords(Store) < MaxRecords /\ CreateHabit(u)
    \/ \E u \in Users, id \in RecordIds : UpdateGoal(u, id, [progress |-> 50])
    \/ \E u \in Users, id \in RecordIds : UpdateHabit(u, id, [active |-> FALSE])
    \/ \E u \in Users, id \in RecordIds : CompleteHabit(u, id)
    \/ \E u \in Users, id \in RecordIds : DeleteTask(u, id)
    \/ \E u \in Users, id \in RecordIds : DeleteGoal(u, id)
    \/ \E u \in Users, id \in RecordIds : DeleteHabit(u, id)

SpecOwner == InitSettled /\ [][NextOwner]_vars

\* the request bodies of PUT /api/tasks/:id that the model draws from
TaskUpdates ==
    {[completed |-> TRUE], [completed |-> FALSE], [title |-> "t2"],
     [title |-> "t2", completed |-> TRUE]}

\* Tasks and the journal entries their completion leaves
NextTasks ==
    \/ \E u \in Users : Store.idCounters.tasks <= MaxTasks /\ CreateTask(u, "t1", Null)
    \/ \E u \in Users, id \in TaskIds, updates \in TaskUpdates :
          Store.idCounters.journalEntries <= MaxJournal /\ UpdateTask(u, id, updates)
    \/ \E u \in Users, id \in TaskIds : DeleteTask(u, id)

SpecTasks == InitSettled /\ [][NextTasks]_vars

\* The dashboard over journal entries of both kinds and several days
GenuineUpstream == UpstreamObject(TRUE, "[a,b,c]", Num(30))

NextDash ==
    \/ \E u \in Users : Store.idCounters.tasks <= MaxTasks /\ CreateTask(u, "t1", Null)
    \/ \E u \in Users, id \in TaskIds :
          Store.idCounters.journalEntries <= MaxJournal
              /\ UpdateTask(u, id, [completed |-> TRUE])
    \/ \E u \in Users :
          Store.idCounters.journalEntries <= MaxJournal
              /\ Analyze(u, <<"today">>, GenuineUpstream)
    \/ \E u \in Users : GetDashboard(u)
    \/ now < MaxDay /\ Tick

SpecDash == InitSettled /\ [][NextDash]_vars

\* Every list of every user, over all four collections
NextLists ==
    \/ \E u \in Users : TotalRecords(Store) < MaxRecords /\ CreateTask(u, "t1", 1)
    \/ \E u \in Users : TotalRecords(Store) < MaxRecords /\ CreateGoal(u)
    \/ \E u \in Users : TotalRecords(Store) < MaxRecords /\ CreateHabit(u)
    \/ \E u \in Users :
          TotalRecords(Store) < MaxRecords /\ Analyze(u, <<"today">>, GenuineUpstream)
    \/ \E u \in Users : GetTasks(u)
    \/ \E u \in Users : GetJournal(u)
    \/ \E u \in Users, status \in {"", "active"} : GetGoals(u, status)
    \/ \E u \in Users, active \in {"", "true", "false"} : GetHabits(u, active)
    \/ \E u \in Users : GetDashboard(u)
    \/ \E u \in Users, period \in {"weekly", "monthly"} : GetMoodAnalytics(u, period)
    \/ \E u \in Users, format \in {"json", "csv"} : Export(u, format)

SpecLists == InitSettled /\ [][NextLists]_vars

\* Registration and login
NextAuth ==
    \/ \E email \in Emails, password \in Passwords, name \in Names :
          Store.idCounters.users <= MaxAccounts /\ Register(email, password, name)
    \/ \E email \in Emails, password \in Passwords : Login(email, password)
    \/ \E u \in Users : Me(u)

SpecAuth == InitSettled /\ [][NextAuth]_vars

\* Every endpoint behind the middleware, with every kind of Authorization header
Creating == {"POST /api/ai/analyze", "POST /api/tasks", "POST /api/goals", "POST /api/habits"}

GateRequests ==
    {[op |-> "GET /api/auth/me", arg |-> 0],
     [op |-> "POST /api/ai/transcribe", arg |-> 0],
     [op |-> "POST /api/ai/analyze", arg |-> GenuineUpstream],
     [op |-> "POST /api/ai/speak", arg |-> 0],
     [op |-> "GET /api/dashboard", arg |-> 0],
     [op |-> "GET /api/tasks", arg |-> 0],
     [op |-> "POST /api/tasks", arg |-> 0],
     [op |-> "PUT /api/tasks/:id", arg |-> 1],
     [op |-> "DELETE /api/tasks/:id", arg |-> 1],
     [op |-> "GET /api/journal", arg |-> 0],
     [op |-> "GET /api/mood/analytics", arg |-> "weekly"],
     [op |-> "GET /api/goals", arg |-> ""],
     [op |-> "POST /api/goals", arg |-> 0],
     [op |-> "PUT /api/goals/:id", arg |-> 1],
     [op |-> "DELETE /api/goals/:id", arg |-> 1],
     [op |-> "GET /api/habits", arg |-> ""],
     [op |-> "POST /api/habits", arg |-> 0],
     [op |-> "PUT /api/habits/:id", arg |-> 1],
     [op |-> "POST /api/habits/:id/complete", arg |-> 1],
     [op |-> "DELETE /api/habits/:id", arg |-> 1],
     [op |-> "GET /api/export", arg |-> "json"]}

NextGate ==
    \/ \E token \in Tokens, req \in GateRequests :
          /\ req.op \in Creating
          /\ TotalRecords(Store) < MaxGateRecords
          /\ Request(token, req)
    \/ \E token \in Tokens, req \in GateRequests :
          req.op \notin Creating /\ Request(token, req)

SpecGate == InitSettled /\ [][NextGate]_vars

\* Habits with every PUT body of the model
NextHabitBodies ==
    \/ \E u \in Users : Store.idCounters.habits <= MaxHabits /\ CreateHabit(u)
    \/ \E u \in Users, id \in HabitIds, body \in HabitUpdates : UpdateHabit(u, id, body)
    \/ \E u \in Users, id \in HabitIds : CompleteHabit(u, id)
    \/ \E u \in Users, id \in HabitIds : DeleteHabit(u, id)
    \/ now < MaxDay /\ Tick

SpecHabitBodies == InitSettled /\ [][NextHabitBodies]_vars

\* The dashboard over several genuine entries a day
NextStreak ==
    \/ \E u \in Users :
          Store.idCounters.journalEntries <= MaxStreakEntries
              /\ Analyze(u, <<"today">>, GenuineUpstream)
    \/ \E u \in Users : GetDashboard(u)
    \/ now < MaxDay /\ Tick

SpecStreak == InitSettled /\ [][NextStreak]_vars

\* Mood analytics over journal entries of both kinds and several days
NextMood ==
    \/ \E u \in Users : Store.idCounters.tasks <= MaxTasks /\ CreateTask(u, "t1", Null)
    \/ \E u \in Users, id \in TaskIds :
          Store.idCounters.journalEntries <= MaxJournal
              /\ UpdateTask(u, id, [completed |-> TRUE])
    \/ \E u \in Users :
          Store.idCounters.journalEntries <= MaxJournal
              /\ Analyze(u, <<"today">>, GenuineUpstream)
    \/ \E u \in Users, period \in {"weekly", "monthly"} : GetMoodAnalytics(u, period)
    \/ now < MaxDay /\ Tick

SpecMood == InitSettled /\ [][NextMood]_vars

\* the request bodies of PUT /api/tasks/:id, /api/goals/:id and /api/habits/:id that name
\* fields a client does not normally send
PutBodies == {[progress |-> 150], [user_id |-> "u2"], [progress |-> 50]}

BodyIds == 1..MaxBodyRecords

\* Tasks, goals and habits under every PUT body and every DELETE parameter of the model
NextBodies ==
    \/ \E u \in Users : TotalRecords(Store) < MaxBodyRecords /\ CreateTask(u, "t1", Null)
    \/ \E u \in Users : TotalRecords(Store) < MaxBodyRecords /\ CreateGoal(u)
    \/ \E u \in Users : TotalRecords(Store) < MaxBodyRecords /\ CreateHabit(u)
    \/ \E u \in Users, id \in BodyIds, body \in PutBodies : UpdateTask(u, id, body)
    \/ \E u \in Users, id \in BodyIds, body \in PutBodies : UpdateGoal(u, id, body)
    \/ \E u \in Users, id \in BodyIds, body \in PutBodies : UpdateHabit(u, id, body)
    \/ \E u \in Users, id \in BodyIds \cup MalformedIds : DeleteTask(u, id)
    \/ \E u \in Users, id \in BodyIds \cup MalformedIds : DeleteGoal(u, id)
    \/ \E u \in Users, id \in BodyIds \cup MalformedIds : DeleteHabit(u, id)

SpecBodies == InitSettled /\ [][NextBodies]_vars

\* The dashboard over tasks with and without due dates
NextUpcoming ==
    \/ \E due_date \in {Null, 1, 2} :
          Store.idCounters.tasks <= MaxUpcoming /\ CreateTask("u1", "t1", due_date)
    \/ \E id \in 1..MaxUpcoming :
          Store.idCounters.journalEntries <= MaxTasks
              /\ UpdateTask("u1", id, [completed |-> TRUE])
    \/ GetDashboard("u1")
    \/ now < MaxDay /\ Tick

SpecUpcoming == InitSettled /\ [][NextUpcoming]_vars

\* Registrations and task completions that overlap
NextRaces ==
    \/ \E n \in 1..MaxInFlight, email \in {"a@x", "A@x"} :
          Store.idCounters.users <= MaxAccounts /\ RegisterCheck(n, email, "abc123", "Ann")
    \/ \E r \in InFlight : RegisterCreate(r)
    \/ Store.idCounters.tasks <= MaxTasks /\ CreateTask("u1", "t1", Null)
    \/ \E id \in TaskIds :
          /\ ~isMongoConnected
          /\ Store.idCounters.journalEntries <= MaxJournal
          /\ UpdateTask("u1", id, [completed |-> TRUE])
    \/ \E n \in 1..MaxInFlight, id \in TaskIds :
          Store.idCounters.journalEntries <= MaxJournal
              /\ TaskRead(n, "u1", id, [completed |-> TRUE])
    \/ \E r \in InFlight : TaskUpdate(r)
    \/ \E r \in InFlight : TaskEntry(r)

SpecRaces == InitSettled /\ [][NextRaces]_vars

\* The insight rules over stats snapshots: mood sums go with their counts, a streak
\* and the mood count are at most the session count, and so on.
Snapshots ==
    {[averageMoodSum |-> m[1], moodCount |-> m[2], currentStreak |-> c,
      totalSessions |-> t, habitsCompletedToday |-> h, totalActiveHabits |-> a,
      activeGoalsCount |-> g[1], goalProgressSum |-> g[2], overdueTasks |-> o,
      completedTasksCount |-> d] :
        m \in {<<0, 0>>, <<30, 1>>, <<50, 1>>, <<70, 1>>, <<139, 2>>, <<140, 2>>},
        c \in {0, 1, 7}, t \in {0, 2, 7}, h \in 0..2, a \in 0..2,
        g \in {<<0, 0>>, <<0, 1>>, <<24, 1>>, <<25, 1>>, <<74, 1>>, <<75, 1>>, <<150, 2>>},
        o \in 0..1, d \in {0, 4, 5}}

ReachableSnapshots ==
    {v \in Snapshots : /\ v.currentStreak <= v.totalSessions
                       /\ v.moodCount <= v.totalSessions
                       /\ v.habitsCompletedToday <= v.totalActiveHabits}

InitInsights ==
    /\ connState \in {"connected", "failed"}
    /\ isMongoConnected = (connState = "connected")
    /\ stores = [mem |-> EmptyStore, db |-> EmptyStore]
    /\ now = 1
    /\ res = NoResponse
    /\ routed = {}
    /\ pending \in {InsightsRequest("u1", v) : v \in ReachableSnapshots}

NextInsights == InsightsPending

SpecInsights == InitInsights /\ [][NextInsights]_vars

\* One analyze request, over every transcription and upstream answer of the model
NextAnalyze == AnalyzePending

SpecAnalyze == InitAnalyze /\ [][NextAnalyze]_vars

\* Requests served while the connection attempt is under way and after it
NextStartup ==
    \/ ConnectSucceeds
    \/ ConnectFails
    \/ \E u \in Users : Store.idCounters.tasks <= MaxTasks /\ CreateTask(u, "t1", Null)
    \/ \E u \in Users, id \in TaskIds : DeleteTask(u, id)
    \/ \E u \in Users : GetTasks(u)

SpecStartup == Init /\ [][NextStartup]_vars

-----------------------------------------------------------------------------
(* Properties *)

WritesOn(type) ==
    IF type = "goals" THEN {"PUT /api/goals/:id", "DELETE /api/goals/:id"}
    ELSE {"PUT /api/habits/:id", "POST /api/habits/:id/complete",
          "DELETE /api/habits/:id"}

\* C1: no request made with the token of user A changes or removes a goal or a habit
\* of another user B; a PUT, complete or DELETE that addresses such a record is
\* answered 404 and the record stays as it was.
C1_NoCrossUserWrite ==
    [][\A type \in {"goals", "habits"} : \A id \in DOMAIN Store[type] :
          Store[type][id].user_id # res'.caller =>
              /\ id \in DOMAIN Store'[type]
              /\ Store'[type][id] = Store[type][id]
              /\ (res'.arg = id /\ res'.op \in WritesOn(type)) => res'.status = 404]_vars

\* C2: once habit H holds a completion of today (a complete on H has succeeded today),
\* a complete on H by its owner is answered 400 and changes nothing.
C2_SecondCompleteRejected ==
    [][\A u \in Users, id \in HabitIds :
          (/\ CompleteHabit(u, id)
           /\ id \in DOMAIN Store.habits
           /\ Store.habits[id].user_id = u
           /\ now \in Range(Store.habits[id].completions))
          => (res'.status = 400 /\ stores' = stores)]_vars

RECURSIVE RunEnding(_, _)
\* the number of consecutive days of the set that end with day d
RunEnding(days, d) == IF d \in days THEN 1 + RunEnding(days, d - 1) ELSE 0

\* C3: a successful complete on habit H stores streak.current = the length N of the run
\* of consecutive days of H's completions that ends today (today included), and
\* streak.longest = max(N, the longest stored before).
C3_StreakIsRunEndingToday ==
    [][\A u \in Users, id \in HabitIds :
          (/\ CompleteHabit(u, id)
           /\ id \in DOMAIN Store.habits
           /\ Store.habits[id].user_id = u
           /\ res'.status = 200)
          => LET before == Store.habits[id]
                 after == Store'.habits[id]
                 N == RunEnding(Range(before.completions) \cup {now}, now)
             IN /\ after.streak.current = N
                /\ after.streak.longest = Max2(N, before.streak.longest)]_vars

\* C4: a PUT on a task of the caller creates exactly one journal entry
\* <<TASK_COMPLETED:, title>> with mood 8 when the stored completed flag goes from
\* false to true, and creates no journal entry otherwise.
C4_EntryOnlyOnCompletion ==
    [][\A u \in Users, id \in TaskIds, updates \in TaskUpdates :
          (/\ UpdateTask(u, id, updates)
           /\ id \in DOMAIN Store.tasks
           /\ Store.tasks[id].user_id = u)
          => LET old == Store.journalEntries
                 new == Store'.journalEntries
                 added == (DOMAIN new) \ (DOMAIN old)
             IN /\ \A i \in DOMAIN old : i \in DOMAIN new /\ new[i] = old[i]
                /\ IF ~Store.tasks[id].completed /\ Store'.tasks[id].completed
                   THEN /\ Cardinality(added) = 1
                        /\ \A i \in added :
                              /\ new[i].transcription = <<Sentinel, Store'.tasks[id].title>>
                              /\ new[i].mood_score = Tenths(8)
                              /\ new[i].user_id = u
                   ELSE added = {}]_vars

\* a PUT has completed a task and the journal holds its completion entry
C4_Witness ==
    /\ res.op = "PUT /api/tasks/:id"
    /\ res.status = 200
    /\ res.arg \in DOMAIN Store.tasks
    /\ Store.tasks[res.arg].completed
    /\ \E i \in DOMAIN Store.journalEntries :
          /\ Store.journalEntries[i].transcription
                 = <<Sentinel, Store.tasks[res.arg].title>>
          /\ Store.journalEntries[i].mood_score = Tenths(8)

\* the completion entries of user u
CompletionEntriesOf(st, u) ==
    {i \in DOMAIN st.journalEntries :
        /\ st.journalEntries[i].user_id = u
        /\ StartsWithSentinel(st.journalEntries[i].transcription)}

\* the genuine entries of user u
GenuineEntriesOf(st, u) ==
    {i \in DOMAIN st.journalEntries :
        /\ st.journalEntries[i].user_id = u
        /\ ~StartsWithSentinel(st.journalEntries[i].transcription)}

\* the store without the journal entries of the set gone
WithoutEntries(st, gone) ==
    [st EXCEPT !.journalEntries =
        [i \in (DOMAIN st.journalEntries) \ gone |-> st.journalEntries[i]]]

\* C5: in a dashboard response totalSessions counts the genuine entries only;
\* averageMood, currentStreak and recentEntries are what they would be without the
\* TASK_COMPLETED: entries, none of which is in recentEntries; and completedTasks
\* counts every one of them.
C5_CompletionEntriesExcluded ==
    res.op = "GET /api/dashboard" =>
        LET u == res.caller
            today == res.body.moodData[7].fullDate
            markers == CompletionEntriesOf(Store, u)
            clean == Dashboard(WithoutEntries(Store, markers), u, today)
        IN /\ res.body.stats.totalSessions = Cardinality(GenuineEntriesOf(Store, u))
           /\ res.body.stats.averageMood = clean.stats.averageMood
           /\ res.body.stats.currentStreak = clean.stats.currentStreak
           /\ res.body.recentEntries = clean.recentEntries
           /\ \A i \in DOMAIN res.body.recentEntries :
                 ~StartsWithSentinel(res.body.recentEntries[i].transcription)
           /\ res.body.stats.completedTasks
                 = clean.stats.completedTasks + Cardinality(markers)

\* a dashboard of a user who has a genuine entry and a completion entry
C5_Witness ==
    /\ res.op = "GET /api/dashboard"
    /\ CompletionEntriesOf(Store, res.caller) # {}
    /\ GenuineEntriesOf(Store, res.caller) # {}
    /\ res.body.stats.totalSessions >= 1
    /\ res.body.stats.completedTasks >= 1

\* the records of user u alone
OwnedBy(st, u) ==
    LET Own(coll) == [i \in {j \in DOMAIN coll : coll[j].user_id = u} |-> coll[i]]
    IN [st EXCEPT !.journalEntries = Own(st.journalEntries), !.tasks = Own(st.tasks),
                  !.goals = Own(st.goals), !.habits = Own(st.habits)]

ReadOps ==
    {"GET /api/tasks", "GET /api/journal", "GET /api/goals", "GET /api/habits",
     "GET /api/dashboard", "GET /api/mood/analytics", "GET /api/export"}

\* what the read answers over store st
ReadBody(op, st, u, arg, today) ==
    CASE op = "GET /api/tasks" -> findTasks(st, [user_id |-> u], ByCreatedDesc)
      [] op = "GET /api/journal" -> findJournalEntries(st, [user_id |-> u], ByCreatedDesc)
      [] op = "GET /api/goals" -> findGoals(st, GoalsQuery(u, arg), ByCreatedDesc)
      [] op = "GET /api/habits" -> findHabits(st, HabitsQuery(u, arg), ByCreatedDesc)
      [] op = "GET /api/dashboard" -> Dashboard(st, u, today)
      [] op = "GET /api/mood/analytics" -> MoodAnalytics(st, u, arg, today)
      [] op = "GET /api/export" ->
            IF arg = "csv" THEN [csv |-> ExportCsv(st, u)] ELSE ExportData(st, u)

\* the lists of records in a response
RecordLists(op, arg, body) ==
    CASE op = "GET /api/dashboard" ->
            {body.recentEntries, body.upcomingTasks, body.activeGoals, body.todayHabits}
      [] op = "GET /api/export" /\ arg # "csv" ->
            {body.journal_entries, body.tasks, body.goals, body.habits}
      [] op \in {"GET /api/mood/analytics", "GET /api/export"} -> {}
      [] OTHER -> {body}

\* C6: every record in the response to a read belongs to the caller, and the response
\* is the one the caller would get if no other user had any record.
C6_OnlyOwnRecords ==
    res.op \in ReadOps =>
        /\ \A list \in RecordLists(res.op, res.arg, res.body) :
              \A i \in DOMAIN list : list[i].user_id = res.caller
        /\ res.body = ReadBody(res.op, OwnedBy(Store, res.caller), res.caller,
                               res.arg, now)

\* a read that returns a record, while another user has records too
C6_Witness ==
    /\ res.op \in ReadOps
    /\ \E list \in RecordLists(res.op, res.arg, res.body) : list # <<>>
    /\ OwnedBy(Store, res.caller) # Store

\* the request in flight is answered in this step
Answered == pending.kind = "analyze" /\ pending' = NoRequest

\* C7: an analyze request whose upstream call fails is answered 200 with the
\* keyword fallback.
C7_UpstreamFailureFallsBack ==
    [][(Answered /\ pending.transcription # <<>> /\ pending.upstream.kind = "error")
          => /\ res'.status = 200
             /\ res'.body = FallbackResponse(pending.transcription)]_vars

\* the upstream output is no JSON, or lacks summary, suggestions or moodScore
Unparsable(upstream) ==
    \/ upstream.kind \in {"invalid", "null"}
    \/ /\ upstream.kind = "object"
       /\ \/ ~upstream.summary
          \/ upstream.suggestions = "absent"
          \/ upstream.moodScore.type = "absent"

WholeScores == {Tenths(n) : n \in 1..10}

\* C8: an analyze request whose upstream output cannot be parsed is answered 200 with
\* the fallback object, whose moodScore is one of 1..10 and which has suggestions.
C8_UnparsableFallsBack ==
    [][(Answered /\ pending.transcription # <<>> /\ Unparsable(pending.upstream))
          => /\ res'.status = 200
             /\ res'.body.summary = "fallback"
             /\ res'.body.moodScore \in WholeScores
             /\ res'.body.suggestions > 0]_vars

\* a fallback answer whose score sits on the upper clamp
C8_Witness ==
    /\ res.op = "POST /api/ai/analyze"
    /\ res.status = 200
    /\ res.body.summary = "fallback"
    /\ res.body.moodScore = Tenths(9)
    /\ pending = NoRequest

\* C9: when the upstream object is accepted, the moodScore of the response and the
\* mood_score of the stored entry are the same whole number of 1..10.
C9_AcceptedScoreIsWhole ==
    (res.op = "POST /api/ai/analyze" /\ res.status = 200 /\ res.body.summary = "upstream")
        => /\ res.body.moodScore \in WholeScores
           /\ Store.journalEntries[res.arg].mood_score = res.body.moodScore

\* C10: after the connection attempt has succeeded every storage operation of the run
\* has gone to the durable store, after it has failed every one has gone to the maps,
\* and no run has used both.
C10_OneBackendPerRun ==
    /\ connState = "connected" => routed \subseteq {"db"}
    /\ connState = "failed" => routed \subseteq {"mem"}
    /\ Cardinality(routed) <= 1

\* C11: a registration with a missing email, password or name, or with a password of
\* fewer than 6 characters, is answered 400 and leaves the users as they were.
C11_InvalidRegistrationRejected ==
    [][\A email \in Emails, password \in Passwords, name \in Names :
          (/\ Register(email, password, name)
           /\ (email = "" \/ password = "" \/ name = "" \/ Len(password) < 6))
          => (res'.status = 400 /\ stores' = stores)]_vars

\* a registration has been refused for its short password, with a user registered
C11_Witness ==
    /\ res.op = "POST /api/auth/register"
    /\ res.status = 400
    /\ res.body = ErrorBody("Password must be at least 6 characters")
    /\ Store.users # <<>>

\* the email without its letter case
CaseFolded(email) ==
    IF email \in {"a@x", "A@x"} THEN "a@x"
    ELSE IF email \in {"b@x", "B@x"} THEN "b@x" ELSE email

\* C12: a registration whose email equals, letter case aside, the email of a user is
\* refused (4xx) and leaves the users as they were.
C12_DuplicateEmailRejected ==
    [][\A email \in Emails, password \in Passwords, name \in Names :
          (/\ Register(email, password, name)
           /\ \E i \in DOMAIN Store.users :
                 CaseFolded(Store.users[i].email) = CaseFolded(email))
          => (res'.status \in 400..499 /\ stores' = stores)]_vars

\* a registration in capital letters has been refused as a duplicate
C12_Witness ==
    /\ res.op = "POST /api/auth/register"
    /\ res.status = 400
    /\ res.body = ErrorBody("User already exists")
    /\ res.arg \in {"A@x", "B@x"}

\* a user has this email, letter case aside
KnownEmail(st, email) ==
    \E i \in DOMAIN st.users : CaseFolded(st.users[i].email) = CaseFolded(email)

\* a user has this email, letter case aside, and another password
WrongPassword(st, email, password) ==
    \E i \in DOMAIN st.users :
        /\ CaseFolded(st.users[i].email) = CaseFolded(email)
        /\ st.users[i].password.bcrypt # password

\* C13: a login with an unknown email and a login with a known email and a wrong
\* password get the same status and the same body.
C13_LoginFailuresAlike ==
    \A e1, e2 \in Emails \ {""} : \A p1, p2 \in Passwords \ {""} :
        (~KnownEmail(Store, e1) /\ WrongPassword(Store, e2, p2))
        => LET unknown == LoginOutcome(Store, e1, p1)
               wrong == LoginOutcome(Store, e2, p2)
           IN unknown.status = wrong.status /\ unknown.body = wrong.body

\* a login for a registered email has been refused
C13_Witness ==
    /\ res.op = "POST /api/auth/login"
    /\ res.status = 401
    /\ KnownEmail(Store, res.arg)

AuthOps == {"POST /api/auth/register", "POST /api/auth/login", "GET /api/auth/me"}

\* C14: no response of register, login or me has a password field, at the top or in
\* its user object.
C14_NoPasswordInResponse ==
    res.op \in AuthOps =>
        /\ "password" \notin DOMAIN res.body
        /\ "user" \in DOMAIN res.body => "password" \notin DOMAIN res.body.user

\* a login has succeeded and returned the user
C14_Witness ==
    /\ res.op = "POST /api/auth/login"
    /\ res.status = 200
    /\ res.body.user.email \in {"a@x", "b@x"}

\* C15: at every endpoint behind the middleware a request without a token is answered
\* 401 and a request with a forged or expired token 403, in both cases with no storage
\* operation and no change of the store; a request with a verified token is handled as
\* the user of the token.
C15_OnlyVerifiedTokensPass ==
    [][\A token \in Tokens, req \in GateRequests :
          (req.op = res'.op /\ Request(token, req)) =>
              IF token.kind = "valid"
              THEN res'.caller = token.userId /\ res'.status \notin {401, 403}
              ELSE /\ res'.status = (IF token.kind = "none" THEN 401 ELSE 403)
                   /\ res'.caller = "none"
                   /\ stores' = stores
                   /\ routed' = routed]_vars

\* a request has been refused with 403 while the store holds records
C15_Witness ==
    /\ res.status = 403
    /\ res.op \in {r.op : r \in GateRequests}
    /\ TotalRecords(Store) > 0

\* C16: every habit holds at most one completion per UTC calendar day.
C16_OneCompletionPerDate ==
    \A id \in DOMAIN Store.habits :
        LET completions == Store.habits[id].completions
        IN \A i, j \in DOMAIN completions :
              i # j => completions[i] # completions[j]

\* the days on which user u has a genuine journal entry
GenuineDays(st, u) ==
    {st.journalEntries[i].created_at : i \in GenuineEntriesOf(st, u)}

\* C17: stats.currentStreak of the dashboard is the number of consecutive days, counted
\* back from today, on each of which the user has a genuine entry (0 without one today).
C17_StreakCountsDays ==
    res.op = "GET /api/dashboard" =>
        res.body.stats.currentStreak
            = RunEnding(GenuineDays(Store, res.caller), res.body.moodData[7].fullDate)

\* C18: the stats and the points of mood analytics are those of the genuine entries:
\* the TASK_COMPLETED: entries of the user change none of them.
C18_AnalyticsOfGenuineEntries ==
    [][\A u \in Users, period \in {"weekly", "monthly"} :
          GetMoodAnalytics(u, period) =>
              res'.body = MoodAnalytics(WithoutEntries(Store, CompletionEntriesOf(Store, u)),
                                        u, period, now)]_vars

\* C19: mood analytics answers 7 points for weekly and 30 for monthly, one per day,
\* oldest first and ending today, and hasEntry is true exactly when mood is not null.
C19_OnePointPerDay ==
    [][\A u \in Users, period \in {"weekly", "monthly"} :
          (/\ res'.op = "GET /api/mood/analytics"
           /\ res'.caller = u
           /\ res'.arg = period
           /\ GetMoodAnalytics(u, period)) =>
              LET data == res'.body.data
                  n == IF period = "weekly" THEN 7 ELSE 30
              IN /\ Len(data) = n
                 /\ \A k \in 1..Len(data) :
                       /\ data[k].fullDate = now - (Len(data) - k)
                       /\ data[k].hasEntry <=> ~data[k].isNull]_vars

\* monthly analytics with a point that has an entry and a point that has none
C19_Witness ==
    /\ res.op = "GET /api/mood/analytics"
    /\ res.arg = "monthly"
    /\ \E k \in DOMAIN res.body.data : res.body.data[k].hasEntry
    /\ \E k \in DOMAIN res.body.data : ~res.body.data[k].hasEntry

\* the place of an insight's rule in the declaration order
RuleOf(title) ==
    CASE title \in {"Great Mood Trend", "Self-Care Reminder"} -> 1
      [] title \in {"Amazing Streak!", "Check-in Reminder"} -> 2
      [] title \in {"All Habits Complete!", "Habit Progress"} -> 3
      [] title \in {"Goals On Track", "Goal Momentum"} -> 4
      [] title = "Overdue Tasks" -> 5
      [] title = "Productivity Pattern" -> 6

DeleteOps == {"DELETE /api/tasks/:id", "DELETE /api/goals/:id", "DELETE /api/habits/:id"}

TypeOf(op) ==
    CASE op = "DELETE /api/tasks/:id" -> "tasks"
      [] op = "DELETE /api/goals/:id" -> "goals"
      [] op = "DELETE /api/habits/:id" -> "habits"

\* C21: a DELETE of a task, goal or habit at an identifier that does not exist, is
\* malformed or belongs to another user answers 404 and changes no collection; at a
\* record of the caller it removes exactly that record.
C21_DeleteOwnOrNotFound ==
    [][res'.op \in DeleteOps =>
         LET type == TypeOf(res'.op)
             id == res'.arg
             own == id \in DOMAIN Store[type] /\ Store[type][id].user_id = res'.caller
         IN IF own
            THEN /\ res'.status = 200
                 /\ Store' = Deleted(Store, type, id)
            ELSE /\ res'.status = 404
                 /\ stores' = stores]_vars

\* C22: every stored goal has a progress between 0 and 100 inclusive, after any
\* sequence of goal create and update requests.
C22_ProgressWithinRange ==
    \A id \in DOMAIN Store.goals :
        Store.goals[id].progress >= 0 /\ Store.goals[id].progress <= 100

\* C29: no PUT on a task, goal or habit changes the owner or the identifier of a stored
\* record, whatever fields its body carries.
C29_OwnerAndIdKept ==
    [][res'.op \in {"PUT /api/tasks/:id", "PUT /api/goals/:id", "PUT /api/habits/:id"} =>
         \A type \in {"tasks", "goals", "habits"} :
             /\ DOMAIN Store'[type] = DOMAIN Store[type]
             /\ \A id \in DOMAIN Store[type] :
                    Store'[type][id].user_id = Store[type][id].user_id]_vars

CreateOps == {"POST /api/tasks", "POST /api/goals", "POST /api/habits"}

CreatedType(op) ==
    CASE op = "POST /api/tasks" -> "tasks"
      [] op = "POST /api/goals" -> "goals"
      [] op = "POST /api/habits" -> "habits"

\* the identifiers a store has issued so far, as texts
IssuedTexts(st) ==
    UNION {{IdText(type, n) : n \in 1..(st.idCounters[type] - 1)} :
               type \in DOMAIN st.idCounters}

\* C23: in in-memory mode a create returns the counter of its type tagged with the type
\* and moves the counter up by one; no counter ever goes down, deletions included, so
\* the identifier is one that no record of any type has received before.
C23_IdsNeverReused ==
    [][~isMongoConnected =>
         /\ \A type \in DOMAIN Store.idCounters :
                Store'.idCounters[type] >= Store.idCounters[type]
         /\ res'.op \in CreateOps =>
                LET type == CreatedType(res'.op)
                    n == res'.arg
                IN /\ n = Store.idCounters[type]
                   /\ Store'.idCounters[type] = n + 1
                   /\ IdText(type, n) \notin IssuedTexts(Store)
                   /\ IdText(type, n) \in IssuedTexts(Store')
                   /\ DOMAIN Store'[type] = DOMAIN Store[type] \cup {n}]_vars

\* a goal created after the first goal was deleted gets the next identifier
C23_Witness ==
    /\ ~isMongoConnected
    /\ res.op = "POST /api/goals"
    /\ res.arg = 2
    /\ DOMAIN Store.goals = {2}

\* C24: upcomingTasks of the dashboard holds only tasks of the caller that are not
\* completed and whose due date is set and no later than 3 days from now, at most 5 of
\* them, in ascending due-date order.
C24_UpcomingTasksAscending ==
    (res.op = "GET /api/dashboard" /\ res.status = 200) =>
        LET list == res.body.upcomingTasks
            today == res.body.moodData[7].fullDate
        IN /\ Len(list) <= 5
           /\ \A i \in 1..Len(list) :
                  /\ list[i].user_id = res.caller
                  /\ ~list[i].completed
                  /\ list[i].due_date # Null
                  /\ list[i].due_date <= today + 3
           /\ \A i, j \in 1..Len(list) : i < j => list[i].due_date <= list[j].due_date

\* C25: POST /api/habits/:id/complete acts on the habit named by :id: 404 when the
\* caller has no such habit, 400 when that habit has a completion today, else exactly
\* one completion is appended to that habit's completions and no other habit changes.
C25_CompleteActsOnNamedHabit ==
    [][(now' = now /\ res'.op = "POST /api/habits/:id/complete") =>
         LET id == res'.arg
             own == id \in DOMAIN Store.habits /\ Store.habits[id].user_id = res'.caller
         IN IF ~own
            THEN res'.status = 404 /\ stores' = stores
            ELSE IF now \in Range(Store.habits[id].completions)
                 THEN res'.status = 400 /\ stores' = stores
                 ELSE /\ res'.status = 200
                      /\ DOMAIN Store'.habits = DOMAIN Store.habits
                      /\ Store'.habits[id].completions =
                             Append(Store.habits[id].completions, now)
                      /\ \A other \in DOMAIN Store.habits \ {id} :
                             Store'.habits[other] = Store.habits[other]]_vars

\* C26: under any interleaving of registrations, no two users have emails that are
\* equal once lower-cased.
C26_NoTwoUsersOneEmail ==
    \A i, j \in DOMAIN Store.users :
        i # j => CaseFolded(Store.users[i].email) # CaseFolded(Store.users[j].email)

\* C27: under any interleaving of PUT /api/tasks/:id requests that set completed to
\* true, every completion entry answers to a false-to-true transition of its own: a
\* user has no more completion entries than tasks whose flag went from false to true
\* (tasks are neither deleted nor reopened here, so these are the completed tasks).
C27_OneEntryPerCompletion ==
    \A u \in Users :
        Cardinality(CompletionEntriesOf(Store, u)) <=
            Cardinality({id \in DOMAIN Store.tasks :
                            Store.tasks[id].user_id = u /\ Store.tasks[id].completed})

\* C28: a journal entry whose transcription starts with the completion marker comes
\* into being only by a task update that completes a task; POST /api/ai/analyze stores
\* none, whatever text it is given.
C28_MarkerOnlyFromTaskUpdate ==
    [][\A u \in Users :
          CompletionEntriesOf(Store', u) # CompletionEntriesOf(Store, u) =>
              /\ res'.op = "PUT /api/tasks/:id"
              /\ res'.caller = u]_vars

\* C30: a PUT /api/tasks/:id that moves the completed flag of a task from false to true
\* raises stats.completedTasks of the caller's dashboard by exactly 1.
C30_CompletionCountsOnce ==
    [][\A id \in DOMAIN Store.tasks :
          (/\ res'.op = "PUT /api/tasks/:id"
           /\ res'.arg = id
           /\ id \in DOMAIN Store'.tasks
           /\ ~Store.tasks[id].completed
           /\ Store'.tasks[id].completed) =>
              Dashboard(Store', res'.caller, now).stats.completedTasks =
                  Dashboard(Store, res'.caller, now).stats.completedTasks + 1]_vars

====
